---------------------------- MODULE Spec2Model ----------------------------
(***************************************************************************)
(* Model of the two time-series notebooks of the Data-Science-Toolbox:     *)
(*                                                                         *)
(*   intro : "Introduction to Time Series Analysis"  (src/unnamed/part_000)*)
(*   walk  : "Lesson 3: Stationarity and Differencing"                     *)
(*           (src/Time Series/.ipynb_checkpoints/                          *)
(*            stationarity-differencing-checkpoint.ipynb)                  *)
(*                                                                         *)
(* A notebook is a list of code cells run by one kernel.  The state is the *)
(* kernel: its namespace (the Python names the cells bind), numpy's global *)
(* random state, the execution counter, and each cell's stored output.     *)
(* One action per code cell; a cell runs whole, up to the statement that   *)
(* raises.                                                                 *)
(*                                                                         *)
(* Floating point.  The notebooks compute in float64.  The model keeps the *)
(* arithmetic of binary floating point (round to nearest, ties to even, a  *)
(* fixed number of significand bits) but with Precision bits instead of 53 *)
(* and with the unit of the grid as smallest spacing, so that rounding     *)
(* happens on numbers small enough to enumerate.  A float is a record      *)
(* [nan, v]: v an integer that Precision bits represent, or NaN.           *)
(***************************************************************************)
EXTENDS Integers, Sequences, FiniteSets, TLC

\* ------------------------------------------------------------ bounds
\* Significand bits of the modelled floats (float64: 53).
Precision == 3
\* Largest series length n the model runs the notebooks with (they fix 100).
MaxN == 5
\* Cell executions one interactive kernel session is followed for.
MaxExec == 3
\* Longest input series of the differencer taken on its own.
MaxLen == 3
\* Largest magnitude of an input value of the differencer taken on its own.
MaxMag == 10

\* ------------------------------------------------------------ floats
Abs(x) == IF x < 0 THEN -x ELSE x

RECURSIVE Pow2(_)
Pow2(k) == IF k = 0 THEN 1 ELSE 2 * Pow2(k - 1)

\* Spacing of the floats at magnitude m.
RECURSIVE Ulp(_)
Ulp(m) == IF m < Pow2(Precision) THEN 1 ELSE 2 * Ulp(m \div 2)

\* Round num/den (den > 0) to an integer, ties to even.
RoundHalfEven(num, den) ==
    LET q == num \div den
        r == num % den
    IN  IF 2 * r < den THEN q
        ELSE IF 2 * r > den THEN q + 1
        ELSE IF q % 2 = 0 THEN q ELSE q + 1

\* The float nearest to the rational num/den (den > 0), ties to even.
RoundRat(num, den) ==
    LET m == Abs(num)
        u == Ulp(m \div den)
        r == u * RoundHalfEven(m, den * u)
    IN  IF num < 0 THEN -r ELSE r

\* The float nearest to the integer x.
Round(x) == RoundRat(x, 1)

NaN == [nan |-> TRUE, v |-> 0]
Fl(x) == [nan |-> FALSE, v |-> x]

FAdd(a, b) == IF a.nan \/ b.nan THEN NaN ELSE Fl(Round(a.v + b.v))
FSubSwapped(a, b) == IF a.nan \/ b.nan THEN NaN ELSE Fl(Round(b.v - a.v))
FSub(a, b) == IF a.nan \/ b.nan THEN NaN ELSE Fl(Round(a.v - b.v))
FMul(a, b) == IF a.nan \/ b.nan THEN NaN ELSE Fl(Round(a.v * b.v))
FDiv(a, b) == IF a.nan \/ b.nan \/ b.v = 0 THEN NaN
              ELSE IF b.v < 0 THEN Fl(RoundRat(-a.v, -b.v))
              ELSE Fl(RoundRat(a.v, b.v))

\* The finite floats of magnitude at most m.
Floats(m) == {Fl(x) : x \in {y \in -m..m : Round(y) = y}}


\* ------------------------------------------------------------ numpy
\* Literals of the notebooks.
Seed == 42
TrendMax == 10
Amplitude == 5
Cycles == 3
\* 2020-01-01 as a day number (days since 1970-01-01).
StartDate == 18262
\* np.pi on the modelled grid.
Pi == Fl(Round(3))

\* Values a standard-normal draw takes in the model.
StepVals == {Fl(-2), Fl(3)}
\* Period of the modelled generator: its state is a position in 0..Period-1.
Period == MaxN + 1
RngStates == 0 .. Period - 1

VARIABLES
    nb,      \* the notebook this kernel runs: "intro" or "walk"
    n,       \* the series length the notebook is run with (100 in both)
    gauss,   \* the generator's output function: state -> standard-normal draw
    rng,     \* numpy's global random state
    ns,      \* the kernel's namespace: name -> value, for the names bound so far
    count,   \* the kernel's execution counter
    out,     \* cell -> [execution_count, outputs] of its latest execution
    uses     \* the library calls made on a series so far: [cell, op, data]

vars == <<nb, n, gauss, rng, ns, count, out, uses>>

\* np.random.seed(seed): the state a seed selects, whatever the state was.
SeedRngSkipped(seed) == rng
SeedRng(seed) == seed % Period

\* np.random.normal(loc, scale, size) from state s: the draws, in order.
Normal(s, loc, scale, size) ==
    [i \in 1..size |-> FAdd(loc, FMul(scale, gauss[(s + i - 1) % Period]))]
\* The state after size draws from state s.
Advance(s, size) == (s + size) % Period

\* np.cumsum: running float sum, left to right.
RECURSIVE CumSum(_)
CumSum(x) ==
    IF Len(x) <= 1 THEN x
    ELSE LET head == CumSum(SubSeq(x, 1, Len(x) - 1))
         IN  Append(head, FAdd(head[Len(head)], x[Len(x)]))

\* np.linspace(start, stop, num), endpoint included.
Linspace(start, stop, num) ==
    LET div == num - 1
        delta == FSub(stop, start)
        step == FDiv(delta, Fl(div))
        y(i) == IF div > 0
                THEN IF step.v = 0 THEN FMul(FDiv(Fl(i), Fl(div)), delta)
                     ELSE FMul(Fl(i), step)
                ELSE FMul(Fl(i), delta)
    IN  [k \in 1..num |->
            IF num > 1 /\ k = num THEN stop ELSE FAdd(y(k - 1), start)]

\* np.sin on the grid: sin(k) rounded to the nearest grid value, k = 0..20.
SinTable == <<0, 1, 1, 0, -1, -1, 0, 1, 1, 0, -1, -1, -1, 0, 1, 1, 0, -1, -1, 0, 1>>
Sin(a) == IF a.nan THEN NaN
          ELSE IF a.v < 0 THEN Fl(-SinTable[-a.v + 1]) ELSE Fl(SinTable[a.v + 1])

\* Element-wise operations on arrays of one length.
VAdd(x, y) == [i \in 1..Len(x) |-> FAdd(x[i], y[i])]
VScale(c, x) == [i \in 1..Len(x) |-> FMul(c, x[i])]
VSin(x) == [i \in 1..Len(x) |-> Sin(x[i])]

\* ------------------------------------------------------------ pandas
\* pd.date_range(start, periods, freq='D'): periods consecutive days.
DateRangeShort(start, periods) == [i \in 1..periods - 1 |-> start + (i - 1)]
DateRange(start, periods) == [i \in 1..periods |-> start + (i - 1)]

\* pd.DataFrame({'Date': dates, col: values}).set_index('Date')
DataFrame(dates, col, values) == [index |-> dates, columns |-> (col :> values)]

\* df[col]: the column as a Series on the frame's index.
Column(df, col) == [index |-> df.index, values |-> df.columns[col]]

\* df[col] = series (same index): the frame with the column added or replaced.
SetColumn(df, col, s) == [df EXCEPT !.columns = (col :> s.values) @@ @]

\* Series.diff(): first-order difference; the first element has no predecessor.
DiffNoLead(s) ==
    [s EXCEPT !.values =
        [i \in 1..Len(s.values) |->
            IF i = 1 THEN Fl(0) ELSE FSub(s.values[i], s.values[i - 1])]]
DiffSwapped(s) ==
    [s EXCEPT !.values =
        [i \in 1..Len(s.values) |->
            IF i = 1 THEN NaN ELSE FSubSwapped(s.values[i], s.values[i - 1])]]
Diff(s) ==
    [s EXCEPT !.values =
        [i \in 1..Len(s.values) |->
            IF i = 1 THEN NaN ELSE FSub(s.values[i], s.values[i - 1])]]

\* The positions from i on whose value is not NaN, ascending.
RECURSIVE NotNa(_, _)
NotNa(values, i) ==
    IF i > Len(values) THEN <<>>
    ELSE (IF values[i].nan THEN <<>> ELSE <<i>>) \o NotNa(values, i + 1)

\* Series.dropna(): the rows whose value is not NaN, index and all.
DropnaKeepsAll(s) == s
Dropna(s) ==
    LET pos == NotNa(s.values, 1)
    IN  [index |-> [k \in 1..Len(pos) |-> s.index[pos[k]]],
         values |-> [k \in 1..Len(pos) |-> s.values[pos[k]]]]

HasNaN(s) == \E i \in 1..Len(s.values) : s.values[i].nan


\* ------------------------------------------------------------ adfuller
\* statsmodels' adfuller(x) is a library call: it raises ValueError when x has
\* fewer than MinObs observations and otherwise returns a statistic and a
\* p-value, which the model picks among AdfResults.  adfstat is in units of
\* 1e-3, pvalue in units of 1e-7.
MinObs == 4
AdfResults == {[adfstat |-> -2863, pvalue |-> 499996],
               [adfstat |-> -2862, pvalue |-> 500000],
               [adfstat |-> -2861, pvalue |-> 500004]}
AdfRaises(x) == Len(x.values) < MinObs

\* The literal 0.05 of each check, in units of 1e-7.
ThresholdOrig == 500000
ThresholdDiff == 500000
ThresholdIntro == 500000

\* '%f' % p: six decimals, so a value in units of 1e-7 loses its last digit.
FormatF(p) == RoundHalfEven(p, 10)

\* ------------------------------------------------------------ cells
Notebooks == {"intro", "walk"}
\* The code cells of each notebook, top to bottom.
Cells == [intro |-> <<"intro_gen", "intro_adf">>,
          walk  |-> <<"gen", "adf", "diff", "adf_diff">>]
AllCells == {"intro_gen", "intro_adf", "gen", "adf", "diff", "adf_diff"}

\* One output of a cell: a printed line, a figure, or a traceback.
Line(text, value) == [output_type |-> "stream", text |-> text, value |-> value]
Figure(title) == [output_type |-> "display_data", text |-> title, value |-> 0]
Error(ename) == [output_type |-> "error", text |-> ename, value |-> 0]

NotRun == [execution_count |-> 0, outputs |-> <<>>]
Raised(cell) ==
    \E i \in 1..Len(out[cell].outputs) : out[cell].outputs[i].output_type = "error"

Defined(name) == name \in DOMAIN ns

\* The end of a cell's execution: the kernel's counter moves on, the cell's
\* stored output is replaced, the namespace and random state are as the cell's
\* statements left them.
Finish(cell, newNs, newRng, outputs, calls) ==
    /\ count' = count + 1
    /\ ns' = newNs
    /\ rng' = newRng
    /\ out' = [out EXCEPT ![cell] =
                  [execution_count |-> count + 1, outputs |-> outputs]]
    /\ uses' = uses \cup calls
    /\ UNCHANGED <<nb, n, gauss>>

Use(cell, op, data) == [cell |-> cell, op |-> op, data |-> data]

\* walk, cell 1 (lines 45-73): seed, draw n steps, cumulate, index by day, plot.
CellGen ==
    LET r0 == SeedRng(Seed)
        steps == Normal(r0, Fl(0), Fl(1), n)
        random_walk == CumSum(steps)
        dates == DateRange(StartDate, n)
        df == DataFrame(dates, "Value", random_walk)
    IN  Finish("gen",
               ("n" :> n) @@ ("steps" :> steps) @@ ("random_walk" :> random_walk)
                   @@ ("dates" :> dates) @@ ("df" :> df) @@ ns,
               Advance(r0, n),
               <<Figure("Non-Stationary Time Series (Random Walk)")>>,
               {Use("gen", "plot", Column(df, "Value"))})

\* The three prints after a successful test with '%f' formatting.
ReportInclusive(r, threshold, yes, no) ==
    << Line("ADF Statistic: %f", FormatF(r.adfstat * 10000)),
       Line("p-value: %f", FormatF(r.pvalue)),
       IF r.pvalue <= threshold THEN Line(yes, 0) ELSE Line(no, 0) >>
Report(r, threshold, yes, no) ==
    << Line("ADF Statistic: %f", FormatF(r.adfstat * 10000)),
       Line("p-value: %f", FormatF(r.pvalue)),
       IF r.pvalue < threshold THEN Line(yes, 0) ELSE Line(no, 0) >>

\* walk, cell 2 (lines 91-99): the test on the original series.
CellAdf ==
    IF ~Defined("df")
    THEN Finish("adf", ns, rng, <<Error("NameError")>>, {})
    ELSE LET x == Column(ns.df, "Value")
         IN  IF AdfRaises(x)
             THEN Finish("adf", ns, rng, <<Error("ValueError")>>,
                         {Use("adf", "adfuller", x)})
             ELSE \E r \in AdfResults :
                      Finish("adf", ("result" :> r) @@ ns, rng,
                             Report(r, ThresholdOrig,
                                    "The series is likely stationary.",
                                    "The series is likely non-stationary."),
                             {Use("adf", "adfuller", x)})

\* walk, cell 3 (lines 117-127): difference the column, plot the new column.
CellDiffInPlace ==
    IF ~Defined("df")
    THEN Finish("diff", ns, rng, <<Error("NameError")>>, {})
    ELSE LET df == SetColumn(ns.df, "Value", Diff(Column(ns.df, "Value")))
         IN  Finish("diff", ("df" :> df) @@ ns, rng,
                    <<Figure("Differenced Time Series")>>,
                    {Use("diff", "plot", Column(df, "Value"))})
CellDiff ==
    IF ~Defined("df")
    THEN Finish("diff", ns, rng, <<Error("NameError")>>, {})
    ELSE LET df == SetColumn(ns.df, "Value_diff", Diff(Column(ns.df, "Value")))
         IN  Finish("diff", ("df" :> df) @@ ns, rng,
                    <<Figure("Differenced Time Series")>>,
                    {Use("diff", "plot", Column(df, "Value_diff"))})

\* walk, cell 4 (lines 145-156): drop the missing values, test what is left.
CellAdfDiff ==
    IF ~Defined("df")
    THEN Finish("adf_diff", ns, rng, <<Error("NameError")>>, {})
    ELSE IF "Value_diff" \notin DOMAIN ns.df.columns
    THEN Finish("adf_diff", ns, rng, <<Error("KeyError")>>, {})
    ELSE LET df_diff == Dropna(Column(ns.df, "Value_diff"))
             bound == ("df_diff" :> df_diff) @@ ns
         IN  IF AdfRaises(df_diff)
             THEN Finish("adf_diff", bound, rng, <<Error("ValueError")>>,
                         {Use("adf_diff", "adfuller", df_diff)})
             ELSE \E r \in AdfResults :
                      Finish("adf_diff", ("result_diff" :> r) @@ bound, rng,
                             Report(r, ThresholdDiff,
                                    "The differenced series is likely stationary.",
                                    "The differenced series is likely non-stationary."),
                             {Use("adf_diff", "adfuller", df_diff)})

\* intro, cell 1 (part_000 lines 50-80): seed, trend + seasonality + noise, plot.
CellIntroGen ==
    LET r0 == SeedRng(Seed)
        dates == DateRange(StartDate, n)
        trend == Linspace(Fl(0), Fl(Round(TrendMax)), n)
        seasonality == VScale(Fl(Round(Amplitude)),
                              VSin(Linspace(Fl(0), FMul(Fl(Round(Cycles)), Pi), n)))
        noise == Normal(r0, Fl(0), Fl(1), n)
        data == VAdd(VAdd(trend, seasonality), noise)
        ts_df == DataFrame(dates, "Value", data)
    IN  Finish("intro_gen",
               ("dates" :> dates) @@ ("trend" :> trend)
                   @@ ("seasonality" :> seasonality) @@ ("noise" :> noise)
                   @@ ("data" :> data) @@ ("ts_df" :> ts_df) @@ ns,
               Advance(r0, n),
               <<Figure("Synthetic Time Series Data")>>,
               {Use("intro_gen", "plot", Column(ts_df, "Value"))})

\* intro, cell 2 (part_000 lines 98-108): the test, printed unformatted.
CellIntroAdf ==
    IF ~Defined("ts_df")
    THEN Finish("intro_adf", ns, rng, <<Error("NameError")>>, {})
    ELSE LET x == Column(ns.ts_df, "Value")
         IN  IF AdfRaises(x)
             THEN Finish("intro_adf", ns, rng, <<Error("ValueError")>>,
                         {Use("intro_adf", "adfuller", x)})
             ELSE \E r \in AdfResults :
                      Finish("intro_adf", ("result" :> r) @@ ns, rng,
                             << Line("ADF Statistic:", r.adfstat),
                                Line("p-value:", r.pvalue),
                                IF r.pvalue < ThresholdIntro
                                THEN Line("The time series is likely stationary.", 0)
                                ELSE Line("The time series is likely non-stationary.", 0) >>,
                             {Use("intro_adf", "adfuller", x)})

\* ------------------------------------------------------------ runs
\* A fresh kernel: nothing bound, nothing run.  The random state is whatever
\* numpy seeded itself with; the generator's output function and the series
\* length are fixed for the run.
Init ==
    /\ nb \in Notebooks
    /\ n \in 1..MaxN
    /\ gauss \in [RngStates -> StepVals]
    /\ rng \in RngStates
    /\ ns = <<>>
    /\ count = 0
    /\ out = [c \in AllCells |-> NotRun]
    /\ uses = {}

\* The notebook run as a script: each code cell once, top to bottom, and
\* nothing after a cell that raised.
TurnAfterError(cell) ==
    /\ count < Len(Cells[nb])
    /\ Cells[nb][count + 1] = cell
Turn(cell) ==
    /\ count < Len(Cells[nb])
    /\ Cells[nb][count + 1] = cell
    /\ \A c \in AllCells : ~Raised(c)

RunGen == Turn("gen") /\ CellGen
RunAdf == Turn("adf") /\ CellAdf
RunDiff == Turn("diff") /\ CellDiff
RunAdfDiff == Turn("adf_diff") /\ CellAdfDiff
RunIntroGen == Turn("intro_gen") /\ CellIntroGen
RunIntroAdf == Turn("intro_adf") /\ CellIntroAdf

Next == RunGen \/ RunAdf \/ RunDiff \/ RunAdfDiff \/ RunIntroGen \/ RunIntroAdf

Spec == Init /\ [][Next]_vars


\* The notebook run by hand: any code cell of the notebook, in any order, any
\* number of times; a cell that raises stops itself and nothing else.
CanExec(cell) ==
    /\ count < MaxExec
    /\ \E i \in 1..Len(Cells[nb]) : Cells[nb][i] = cell

ExecGen == CanExec("gen") /\ CellGen
ExecAdf == CanExec("adf") /\ CellAdf
ExecDiff == CanExec("diff") /\ CellDiff
ExecAdfDiff == CanExec("adf_diff") /\ CellAdfDiff
ExecIntroGen == CanExec("intro_gen") /\ CellIntroGen
ExecIntroAdf == CanExec("intro_adf") /\ CellIntroAdf

NextKernel ==
    ExecGen \/ ExecAdf \/ ExecDiff \/ ExecAdfDiff \/ ExecIntroGen \/ ExecIntroAdf

SpecKernel == Init /\ [][NextKernel]_vars

\* The differencer on its own: the walk notebook's frame holds any series of
\* finite values, of any length from 1 to MaxLen, and the differencing cell and
\* the dropna cell run on it in turn.
InputVals == {Fl(x) : x \in {y \in 0..MaxMag : Round(y) = y}}
Inputs == UNION {[1..len -> InputVals] : len \in 1..MaxLen}

InitDiff ==
    /\ nb = "walk"
    /\ \E x \in Inputs :
          /\ n = Len(x)
          /\ ns = ("n" :> Len(x)) @@
                  ("df" :> DataFrame(DateRange(StartDate, Len(x)), "Value", x))
    /\ gauss = [s \in RngStates |-> Fl(0)]
    /\ rng = 0
    /\ count = 0
    /\ out = [c \in AllCells |-> NotRun]
    /\ uses = {}

ApplyDiff == count = 0 /\ CellDiff
ApplyDropna == count = 1 /\ CellAdfDiff

NextDiff == ApplyDiff \/ ApplyDropna

SpecDiff == InitDiff /\ [][NextDiff]_vars


\* ------------------------------------------------------------ properties
\* The step just taken executed this cell.
Ran(cell) == out'[cell].execution_count = count + 1
\* The cell has been executed and did not raise.
Passed(cell) == out[cell].execution_count > 0 /\ ~Raised(cell)
\* The printed lines of a cell's latest execution.
Printed(cell) ==
    {i \in 1..Len(out[cell].outputs) : out[cell].outputs[i].output_type = "stream"}
Texts(cell) == {out[cell].outputs[i].text : i \in Printed(cell)}

\* C1: the differenced series handed on (df_diff, after dropna) has length
\* N - 1, and its i-th element is input[i+1] - input[i] (float subtraction),
\* for every series of finite values of length N >= 1.
C1_DifferencerContract ==
    Defined("df_diff") =>
        LET x == ns.df.columns.Value
            d == ns.df_diff.values
        IN  /\ Len(d) = Len(x) - 1
            /\ Len(ns.df_diff.index) = Len(d)
            /\ \A i \in 1..Len(d) : d[i] = FSub(x[i + 1], x[i])

C1_Witness ==
    /\ Defined("df_diff")
    /\ Len(ns.df_diff.values) = 2
    /\ ns.df_diff.values[1] # ns.df_diff.values[2]

\* C2: each check that returns prints exactly one classification, "stationary"
\* exactly when the p-value is below 0.05 (500000 in units of 1e-7) and
\* "non-stationary" otherwise, at all three check sites.
Classifies(cell, res, yes, no) ==
    Passed(cell) =>
        /\ Cardinality({i \in Printed(cell) :
                            out[cell].outputs[i].text \in {yes, no}}) = 1
        /\ (yes \in Texts(cell)) <=> (ns[res].pvalue < 500000)
        /\ (no \in Texts(cell)) <=> (ns[res].pvalue >= 500000)

C2_Classification ==
    /\ Classifies("adf", "result",
                  "The series is likely stationary.",
                  "The series is likely non-stationary.")
    /\ Classifies("adf_diff", "result_diff",
                  "The differenced series is likely stationary.",
                  "The differenced series is likely non-stationary.")
    /\ Classifies("intro_adf", "result",
                  "The time series is likely stationary.",
                  "The time series is likely non-stationary.")

C2_Witness ==
    /\ Passed("adf") /\ Passed("adf_diff")
    /\ ns.result.pvalue = 499996
    /\ ns.result_diff.pvalue = 500000
    /\ "The series is likely stationary." \in Texts("adf")
    /\ "The differenced series is likely non-stationary." \in Texts("adf_diff")

\* C3: every execution of a generation cell after an earlier one, whatever the
\* random state has become in between, binds the same draws and the same
\* series as the earlier execution did.
C3_SeededGeneratorDeterministic ==
    [][ /\ (Ran("gen") /\ Defined("df")) =>
              /\ ns'.steps = ns.steps
              /\ ns'.random_walk = ns.random_walk
              /\ Column(ns'.df, "Value") = Column(ns.df, "Value")
        /\ (Ran("intro_gen") /\ Defined("ts_df")) =>
              /\ ns'.noise = ns.noise
              /\ ns'.data = ns.data
              /\ ns'.ts_df = ns.ts_df ]_vars

C3_Witness ==
    /\ count = 2
    /\ out["gen"].execution_count = 2
    /\ \A c \in AllCells \ {"gen"} : out[c] = NotRun
    /\ rng # SeedRng(Seed)
    /\ \E i \in 1..Len(ns.steps) : ns.steps[i] # ns.steps[1]

\* C4 as claimed: no plot and no test of the differenced series is handed a
\* series that still holds the undefined leading element.
C4_NoUseSeesUndefined ==
    \A u \in uses : u.cell \in {"diff", "adf_diff"} => ~HasNaN(u.data)

\* C4 as amended: the stationarity test is never handed a series holding an
\* undefined element (the differencing cell's plot is handed the column with
\* its leading undefined element in place).
C4_TestNeverSeesUndefined ==
    \A u \in uses : u.op = "adfuller" => ~HasNaN(u.data)

C4_Witness ==
    /\ \E u \in uses : u.cell = "adf_diff" /\ u.op = "adfuller" /\ Len(u.data.values) = n - 1
    /\ \E u \in uses : u.cell = "diff" /\ u.op = "plot" /\ u.data.values[1].nan

\* A ramp formed in floating point: element i is a + b * i, each operation rounded.
FloatRamp(a, b, len) == [i \in 1..len |-> FAdd(a, FMul(b, Fl(i - 1)))]
\* x is the ramp a + b * i with no element rounded.
ExactRamp(x, a, b) == \A i \in 1..Len(x) : ~x[i].nan /\ x[i].v = a.v + b.v * (i - 1)
Slopes == Floats(2 * MaxMag)

ConstantGivesZeros ==
    Defined("df_diff") =>
        LET x == ns.df.columns.Value
            d == ns.df_diff.values
        IN  (\A i \in 1..Len(x) : x[i] = x[1]) => \A i \in 1..Len(d) : d[i] = Fl(0)

\* C5 as claimed: a constant series differences to zeros, and a ramp
\* input[i] = a + b * i differences to a series whose elements all equal b.
C5_RampGivesSlope ==
    /\ ConstantGivesZeros
    /\ Defined("df_diff") =>
          LET x == ns.df.columns.Value
              d == ns.df_diff.values
          IN  \A a \in InputVals, b \in Slopes :
                  x = FloatRamp(a, b, Len(x)) => \A i \in 1..Len(d) : d[i] = b

\* C5 as amended: a constant series differences to zeros, and a ramp whose
\* elements a + b * i are all exact (none was rounded when the ramp was formed)
\* differences to a series whose elements all equal b.
C5_ExactRampGivesSlope ==
    /\ ConstantGivesZeros
    /\ Defined("df_diff") =>
          LET x == ns.df.columns.Value
              d == ns.df_diff.values
          IN  \A a \in InputVals, b \in Slopes :
                  ExactRamp(x, a, b) => \A i \in 1..Len(d) : d[i] = b

C5_Witness ==
    /\ Defined("df_diff")
    /\ Len(ns.df_diff.values) = 2
    /\ ExactRamp(ns.df.columns.Value, Fl(1), Fl(2))
    /\ ns.df_diff.values = <<Fl(2), Fl(2)>>


\* A frame of the generator's shape: n rows, every column n values, row i
\* stamped with the start date plus i days.
Shaped(df) ==
    /\ Len(df.index) = n
    /\ \A col \in DOMAIN df.columns : Len(df.columns[col]) = Len(df.index)
    /\ \A i \in 1..Len(df.index) : df.index[i] = StartDate + (i - 1)
    /\ \A i \in 1..Len(df.index) - 1 : df.index[i + 1] - df.index[i] = 1

\* C6: for a count N >= 1 the generator produces exactly N values on exactly N
\* timestamps, timestamp i being 2020-01-01 plus i days: strictly increasing,
\* one day apart, values and index of one length.
C6_GeneratorShape ==
    /\ Defined("df") => Shaped(ns.df) /\ Len(ns.steps) = n /\ Len(ns.random_walk) = n
    /\ Defined("ts_df") => Shaped(ns.ts_df) /\ Len(ns.noise) = n /\ Len(ns.data) = n

C6_Witness ==
    /\ Defined("df")
    /\ n = MaxN
    /\ "Value_diff" \in DOMAIN ns.df.columns
    /\ ns.df.index[n] = StartDate + n - 1

\* C7: when the test raises for too few observations, nothing is printed for
\* that check, its result is not bound, no later cell of the script runs, and
\* the cell is not run again.
C7_ErrorEndsTheScript ==
    \A i \in 1..Len(Cells[nb]) :
        LET cell == Cells[nb][i]
        IN  Raised(cell) =>
                /\ out[cell].outputs = <<Error("ValueError")>>
                /\ Printed(cell) = {}
                /\ out[cell].execution_count = i
                /\ count = i
                /\ \A j \in i + 1..Len(Cells[nb]) : out[Cells[nb][j]] = NotRun
                /\ cell = "adf_diff" => ~Defined("result_diff")
                /\ cell \in {"adf", "intro_adf"} => ~Defined("result")

C7_Witness ==
    /\ nb = "walk"
    /\ Raised("adf_diff")
    /\ Passed("adf")
    /\ Len(ns.df_diff.values) = MinObs - 1

\* C9: the differencing cell, the dropna cell and either check leave every
\* (timestamp, value) pair of the original series as it was and bind nothing
\* but the derived column, df_diff and the results; and the differencing cell
\* run again leaves the frame as its first run left it.
Derived == {"df", "df_diff", "result", "result_diff"}

C9_OriginalUnchanged ==
    [][ /\ (Defined("df") /\ (Ran("adf") \/ Ran("diff") \/ Ran("adf_diff"))) =>
              /\ Column(ns'.df, "Value") = Column(ns.df, "Value")
              /\ DOMAIN ns'.df.columns \subseteq DOMAIN ns.df.columns \cup {"Value_diff"}
              /\ DOMAIN ns' \subseteq DOMAIN ns \cup Derived
              /\ \A name \in DOMAIN ns \ Derived : ns'[name] = ns[name]
        /\ (Defined("df") /\ Ran("diff") /\ "Value_diff" \in DOMAIN ns.df.columns) =>
              ns'.df = ns.df ]_vars

C9_Witness ==
    /\ count = 3
    /\ out["gen"].execution_count = 1
    /\ out["diff"].execution_count = 3
    /\ out["adf"] = NotRun /\ out["adf_diff"] = NotRun
    /\ Len(ns.df.columns.Value_diff) = MaxN

\* C10 as claimed: the differenced series handed to the second check is the
\* step sequence without its first element: df_diff[i] = steps[i+1].
C10_DiffIsSteps ==
    Defined("df_diff") =>
        /\ Len(ns.df_diff.values) = n - 1
        /\ \A i \in 1..n - 1 : ns.df_diff.values[i] = ns.steps[i + 1]

\* C10 as amended: df_diff has n - 1 elements, df_diff[i] is the float
\* difference random_walk[i+1] - random_walk[i], and it equals steps[i+1]
\* wherever the running sum random_walk[i] + steps[i+1] was exact.
C10_DiffIsStepsWhereSumExact ==
    Defined("df_diff") =>
        /\ Len(ns.df_diff.values) = n - 1
        /\ \A i \in 1..n - 1 :
              /\ ns.df_diff.values[i] = FSub(ns.random_walk[i + 1], ns.random_walk[i])
              /\ ns.random_walk[i + 1].v = ns.random_walk[i].v + ns.steps[i + 1].v
                    => ns.df_diff.values[i] = ns.steps[i + 1]

C10_Witness ==
    /\ Passed("adf_diff")
    /\ n = MaxN
    /\ \E i \in 1..n - 1 : ns.df_diff.values[i] # ns.steps[i + 1]
    /\ \E i \in 1..n - 1 : ns.df_diff.values[i] = ns.steps[i + 1]

=============================================================================
